---- MODULE Spec2Model ----
(***************************************************************************)
(* Model of the concentrato-rs timer: the typed phase state machine of     *)
(* src/state.rs and the tick-driven runner run_timer of src/main.rs.       *)
(*                                                                         *)
(* Time is counted in clock units of 125 ms: an Instant is an integer      *)
(* number of units, a Duration a natural number of units.                  *)
(***************************************************************************)
EXTENDS Integers, Sequences, FiniteSets

VARIABLES
    \* ---- the phase state machine (src/state.rs) driven through its API
    phase,            \* the State<_> value currently owned by the caller
    op,               \* the operation applied last, with its receiver and arguments
    outcome,          \* the TickResult the last tick returned, or NoResult
    path,             \* kinds of the values of this lineage, since the last new()
    prev,             \* the operation applied before the last one, and its result
    \* ---- one call of run_timer (src/main.rs)
    now,              \* the monotonic clock
    deadline,         \* the Interval's next boundary
    pc,               \* run_timer's position
    initial_state,    \* its argument initial_state
    failAt,           \* its argument f: the invocation at which f fails (0: never)
    rt_start_time,    \* its local start_time
    new_state_either, \* its local new_state_either
    remaining_time,   \* its local remaining_time
    ret,              \* what the call returned
    events,           \* what the call has done so far, in order
    reported,         \* the remaining times handed to f, in order
    ticked,           \* the elapsed times handed to tick, in order
    blocked,          \* clock units spent suspended on the Interval
    \* ---- the top-level cycle of main (src/main.rs)
    mpc,              \* main's position
    post_work_state,  \* its local post_work_state
    built,            \* the clock reading at which the running phase was constructed
    cycle,            \* what the current cycle has been through, in order
    \* ---- one call of format_duration (src/main.rs)
    duration,         \* its argument, in milliseconds
    formatted         \* the text it returned

smVars  == <<phase, op, outcome, path, prev>>
runVars == <<now, deadline, pc, initial_state, failAt, rt_start_time,
             new_state_either, remaining_time, ret, events, reported, ticked,
             blocked>>
mainVars == <<mpc, post_work_state, built, cycle>>
fmtVars == <<duration, formatted>>
vars    == <<smVars, runVars, mainVars, fmtVars>>

----------------------------------------------------------------------------
(* Bounds of the model. *)

MaxPeriod  == 3    \* longest period length tried beside the program's own
MaxInstant == 1    \* latest start_time handed to the state machine's API
MaxOps     == 5    \* operations applied to one lineage of phase values
MaxAge     == 1    \* how long before the call the phase's start_time may lie
MaxMissed  == 1    \* boundaries the Interval may be behind at the call
MaxDelay   == 2    \* clock units that may pass before a clock reading
MaxFail    == 2    \* latest invocation at which the callback may fail
U64Bits    == 7    \* bits of the machine word that stands for u64

(* Program constants, in clock units of 125 ms. *)

Cadence        == 8     \* time::interval(time::Duration::from_secs(1))
work_duration  == 16    \* Duration::from_secs(2)
break_duration == 16    \* Duration::from_secs(2)

----------------------------------------------------------------------------
(* src/state.rs: the phase values.  State<T> { state: T } is represented   *)
(* by the T it wraps; kind is the type parameter.                          *)

PreWork  == [kind |-> "PreWork"]
PostWork == [kind |-> "PostWork"]
Complete == [kind |-> "Complete"]

Working(start, period) ==
    [kind |-> "Working", start_time |-> start, working_period |-> period]

Break(start, length) ==
    [kind |-> "Break", start_time |-> start, break_length |-> length]

\* enum TickResult<C, T> { Continue(State<C>), Complete(State<T>) }
TickContinue(s) == [tag |-> "Continue", value |-> s]
TickComplete(s) == [tag |-> "Complete", value |-> s]

\* TickResult::complete_value
complete_value(r) == IF r.tag = "Continue" THEN <<>> ELSE <<r.value>>

\* State::<PreWork>::new
new == PreWork

\* State::<PreWork>::start_working
start_working(self, working_period, start) == Working(start, working_period)

\* a Break that goes on counting from the instant the Working phase was built
start_break_Stale(self, break_length, start) == Break(built, break_length)

\* State::<PostWork>::start_break
start_break(self, break_length, start) == Break(start, break_length)

\* stop of a Working that lets the abandoned phase count as finished
stop_Working_AsFinished(self) == PostWork

\* <State<Working> as StoppableState<PreWork>>::stop
stop_Working(self) == new

\* stop of a Break written like stop of a Working
stop_Break_AsWorking(self) == new

\* <State<Break> as StoppableState<Complete>>::stop
stop_Break(self) == Complete

\* TimedState::period_length, for State<Working> and State<Break>
period_length(self) ==
    IF self.kind = "Working" THEN self.working_period ELSE self.break_length

\* TimedState::start_time, for State<Working> and State<Break>
start_time(self) == self.start_time

\* tick of a Working that continues through the boundary elapsed = period
tick_Working_Late(self, elapsed_time) ==
    IF elapsed_time <= period_length(self)
    THEN TickContinue(self)
    ELSE TickComplete(PostWork)

\* tick of a Working that completes one clock unit early
tick_Working_Early(self, elapsed_time) ==
    IF elapsed_time + 1 < period_length(self)
    THEN TickContinue(self)
    ELSE TickComplete(PostWork)

\* a tick that uses up the period: Continue carries what is left of it
tick_Working_Consuming(self, elapsed_time) ==
    IF elapsed_time < period_length(self)
    THEN TickContinue(Working(start_time(self), period_length(self) - elapsed_time))
    ELSE TickComplete(PostWork)

\* a Working phase that completes straight into Complete
tick_Working_SkipsBreak(self, elapsed_time) ==
    IF elapsed_time < period_length(self)
    THEN TickContinue(self)
    ELSE TickComplete(Complete)

\* <State<Working> as TimedState<Working, PostWork>>::tick
tick_Working(self, elapsed_time) ==
    IF elapsed_time < period_length(self)
    THEN TickContinue(self)
    ELSE TickComplete(PostWork)

\* tick of a Break that completes one clock unit early
tick_Break_Early(self, elapsed_time) ==
    IF elapsed_time + 1 < period_length(self)
    THEN TickContinue(self)
    ELSE TickComplete(Complete)

\* <State<Break> as TimedState<Break, Complete>>::tick
tick_Break(self, elapsed_time) ==
    IF elapsed_time < period_length(self)
    THEN TickContinue(self)
    ELSE TickComplete(Complete)

\* trait dispatch of TimedState::tick on the receiver's type
tick(self, elapsed_time) ==
    IF self.kind = "Working"
    THEN tick_Working(self, elapsed_time)
    ELSE tick_Break(self, elapsed_time)

----------------------------------------------------------------------------
(* The state machine driven through its public operations.  The receiver's *)
(* type decides which operations exist for it; every operation consumes    *)
(* the receiver and yields the value the caller owns next.                 *)

NoResult == [tag |-> "None"]
NoOp     == [name |-> "none"]

Periods  == (0 .. MaxPeriod) \cup {work_duration, break_duration}
Instants == 0 .. MaxInstant
Elapsed  == { e \in 0 .. work_duration + 1 : \E p \in Periods : e \in p - 1 .. p + 1 }

NoPrev   == [op |-> NoOp, outcome |-> NoResult]

NoState  == [kind |-> "none"]

IdleMain ==
    /\ mpc = "idle" /\ post_work_state = NoState /\ built = 0
    /\ cycle = <<>>

IdleFmt ==
    /\ duration = 0 /\ formatted = <<>>

IdleRun ==
    /\ now = 0 /\ deadline = 0 /\ pc = "idle"
    /\ initial_state = PreWork /\ failAt = 0 /\ rt_start_time = 0
    /\ new_state_either = NoResult /\ remaining_time = 0
    /\ ret = [tag |-> "None"]
    /\ events = <<>> /\ reported = <<>> /\ ticked = <<>> /\ blocked = 0

InitSM ==
    /\ phase = new
    /\ op = [name |-> "new"]
    /\ outcome = NoResult
    /\ path = <<"PreWork">>
    /\ prev = NoPrev
    /\ IdleRun /\ IdleMain /\ IdleFmt

Applied(o, next, result) ==
    /\ Len(path) < MaxOps
    /\ op' = o
    /\ phase' = next
    /\ outcome' = result
    /\ path' = Append(path, next.kind)
    /\ prev' = [op |-> op, outcome |-> outcome]
    /\ UNCHANGED <<runVars, mainVars, fmtVars>>

New ==
    /\ op' = [name |-> "new"]
    /\ phase' = new
    /\ outcome' = NoResult
    /\ path' = <<"PreWork">>
    /\ prev' = NoPrev
    /\ UNCHANGED <<runVars, mainVars, fmtVars>>

StartWorking ==
    /\ phase.kind = "PreWork"
    /\ \E p \in Periods, t \in Instants :
         Applied([name |-> "start_working", self |-> phase],
                 start_working(phase, p, t), NoResult)

StartBreak ==
    /\ phase.kind = "PostWork"
    /\ \E p \in Periods, t \in Instants :
         Applied([name |-> "start_break", self |-> phase],
                 start_break(phase, p, t), NoResult)

Tick ==
    /\ phase.kind \in {"Working", "Break"}
    /\ \E e \in Elapsed :
         LET r == tick(phase, e)
         IN  Applied([name |-> "tick", self |-> phase, elapsed_time |-> e],
                     r.value, r)

StopWorking ==
    /\ phase.kind = "Working"
    /\ Applied([name |-> "stop", self |-> phase], stop_Working(phase), NoResult)

StopBreak ==
    /\ phase.kind = "Break"
    /\ Applied([name |-> "stop", self |-> phase], stop_Break(phase), NoResult)

NextSM ==
    \/ New
    \/ StartWorking
    \/ StartBreak
    \/ Tick
    \/ StopWorking
    \/ StopBreak

SpecSM == InitSM /\ [][NextSM]_vars

----------------------------------------------------------------------------
(* src/main.rs: one call run_timer(initial_state, interval, f).            *)
(*                                                                         *)
(* The Interval is tokio's: tick() completes once the clock has reached    *)
(* the stored deadline and moves the deadline one period on (the default   *)
(* MissedTickBehavior::Burst), so an Interval that is behind completes     *)
(* at once.  A new Interval's deadline is the instant of its creation.     *)
(* Instant::elapsed reads the monotonic clock; up to MaxDelay units pass   *)
(* before each reading inside the loop (the time the code before it, the   *)
(* callback and the wake-up take).  The time that has passed before the    *)
(* first reading is the age of the phase's start_time at the call.         *)

\* a reading is taken at once, one clock unit late, or MaxDelay units late
Delays == {0, 1, MaxDelay}

NoReturn == [tag |-> "None"]
Ok(v)    == [tag |-> "Ok", value |-> v]
Err      == [tag |-> "Err"]

\* the callback f: Fn(&State<I>, &Duration) -> eyre::Result<()>, at its n-th call
f(n) == IF failAt # 0 /\ n >= failAt THEN Err ELSE Ok(<<>>)

\* elapsed time taken since the previous clock reading, not since start
elapsed_SinceLastReading(start, t) == t - now

\* Instant::elapsed at clock reading t
elapsed(start, t) == IF t >= start THEN t - start ELSE 0

\* Interval::tick: the instant the wait is over, when it starts at t
wake(t) == IF deadline > t THEN deadline ELSE t

\* while let Either::Left(new_state) = new_state_either: the loop's Left is the
\* tick's Continue, its Right the tick's Complete
LoopEntry(r) == IF r.tag = "Continue" THEN "l94" ELSE "l101"

\* the callback's result dropped instead of propagated
Try_Ignored(r) == "l96"

\* the loop going round without the wait on the Interval
Try_NoWait(r) == IF r.tag = "Ok" THEN "l94" ELSE "failed"

\* f(&new_state, &remaining_time)?
Try(r) == IF r.tag = "Ok" THEN "l96" ELSE "failed"

\* Duration - Duration: None when it would be negative (the operator panics)
checked_sub(a, b) == IF a >= b THEN <<a - b>> ELSE <<>>

IdleSM ==
    /\ phase = new /\ op = NoOp /\ outcome = NoResult /\ path = <<>>
    /\ prev = NoPrev

TimedStates ==
    { Working(s, p) : s \in -MaxAge .. 0, p \in Periods } \cup
    { Break(s, p)   : s \in -MaxAge .. 0, p \in Periods }

InitRun ==
    /\ IdleSM /\ IdleMain /\ IdleFmt
    /\ now = 0
    /\ deadline \in -(MaxMissed * Cadence) .. Cadence
    /\ pc = "l90"
    /\ initial_state \in TimedStates
    /\ failAt \in 0 .. MaxFail
    /\ rt_start_time = 0
    /\ new_state_either = NoResult
    /\ remaining_time = 0
    /\ ret = NoReturn
    /\ events = <<>> /\ reported = <<>> /\ ticked = <<>> /\ blocked = 0

\* lines 90-91: let start_time = ...; let mut new_state_either = initial_state.tick(..)
InitialTick ==
    /\ pc = "l90"
    /\ LET st == start_time(initial_state)
           e  == elapsed(st, now)
           r  == tick(initial_state, e)
       IN  /\ rt_start_time' = st
           /\ new_state_either' = r
           /\ ticked' = Append(ticked, e)
           /\ events' = Append(events, r.tag)
    /\ pc' = "l92"
    /\ UNCHANGED <<smVars, mainVars, fmtVars, now, deadline, initial_state, failAt, remaining_time, ret,
                   reported, blocked>>

\* interval.tick().await
IntervalTick(next) ==
    /\ now' = wake(now)
    /\ blocked' = blocked + (wake(now) - now)
    /\ deadline' = deadline + Cadence
    /\ events' = Append(events, "wait")
    /\ pc' = next
    /\ UNCHANGED <<smVars, mainVars, fmtVars, initial_state, failAt, rt_start_time, new_state_either,
                   remaining_time, ret, reported, ticked>>

\* line 92: interval.tick().await, then the loop's first test (line 93)
FirstWait ==
    /\ pc = "l92"
    /\ IntervalTick(LoopEntry(new_state_either))

\* line 94: let remaining_time = new_state.period_length() - start_time.elapsed()
Remaining ==
    /\ pc = "l94"
    /\ \E d \in Delays :
         LET diff == checked_sub(period_length(new_state_either.value),
                                 elapsed(rt_start_time, now + d))
         IN  /\ now' = now + d
             /\ \/ /\ diff # <<>>
                   /\ remaining_time' = diff[1]
                   /\ pc' = "l95"
                   /\ ret' = ret
                \/ /\ diff = <<>>
                   /\ remaining_time' = remaining_time
                   /\ pc' = "panicked"
                   /\ ret' = [tag |-> "Panic"]
    /\ UNCHANGED <<smVars, mainVars, fmtVars, deadline, initial_state, failAt, rt_start_time,
                   new_state_either, events, reported, ticked, blocked>>

\* line 95: f(&new_state, &remaining_time)?
Callback ==
    /\ pc = "l95"
    /\ LET r == f(Len(reported) + 1)
       IN  /\ pc' = Try(r)
           /\ ret' = IF Try(r) = "failed" THEN r ELSE ret
    /\ reported' = Append(reported, remaining_time)
    /\ events' = Append(events, "callback")
    /\ UNCHANGED <<smVars, mainVars, fmtVars, now, deadline, initial_state, failAt, rt_start_time,
                   new_state_either, remaining_time, ticked, blocked>>

\* line 96: interval.tick().await
LoopWait ==
    /\ pc = "l96"
    /\ IntervalTick("l97")

\* line 97: new_state_either = new_state.tick(&start_time.elapsed()), then line 93
ReTick ==
    /\ pc = "l97"
    /\ \E d \in Delays :
         LET e == elapsed(rt_start_time, now + d)
             r == tick(new_state_either.value, e)
         IN  /\ now' = now + d
             /\ new_state_either' = r
             /\ ticked' = Append(ticked, e)
             /\ events' = Append(events, r.tag)
             /\ pc' = LoopEntry(r)
    /\ UNCHANGED <<smVars, mainVars, fmtVars, deadline, initial_state, failAt, rt_start_time,
                   remaining_time, ret, reported, blocked>>

\* line 101: Ok(new_state_either.right().unwrap())
Return ==
    /\ pc = "l101"
    /\ LET v == complete_value(new_state_either)
       IN  IF v # <<>>
           THEN /\ ret' = Ok(v[1])
                /\ pc' = "returned"
           ELSE /\ ret' = [tag |-> "Panic"]
                /\ pc' = "panicked"
    /\ UNCHANGED <<smVars, mainVars, fmtVars, now, deadline, initial_state, failAt, rt_start_time,
                   new_state_either, remaining_time, events, reported, ticked,
                   blocked>>

NextRun ==
    \/ InitialTick
    \/ FirstWait
    \/ Remaining
    \/ Callback
    \/ LoopWait
    \/ ReTick
    \/ Return

SpecRun == InitRun /\ [][NextRun]_vars

\* the same call on a runtime that keeps polling the task: a step that can be
\* taken (a wait that is over, a statement to execute) is eventually taken
SpecRunFair == InitRun /\ [][NextRun]_vars /\ WF_vars(NextRun)

----------------------------------------------------------------------------
(* The top-level cycle of main: a Working run, the question whether to     *)
(* take the break, a Break run, the question whether to go round again.    *)
(* The runs are calls of run_timer on the one Interval main created, so    *)
(* the actions of run_timer above are steps of main too.                   *)
(*                                                                         *)
(* Instants are only ever subtracted from one another, so each cycle       *)
(* counts the clock from its own beginning: going round the loop moves the *)
(* origin of the clock, and the Interval's deadline with it.               *)

\* how long read_continue may block before the user's key arrives: no time,
\* or one period of the Interval as long as that leaves the Interval no more
\* than one boundary behind
ThinkTimes ==
    { t \in {0, Cadence} : t = 0 \/ now + t - deadline <= Cadence }

\* read_continue: Enter, y, Y and space are yes; Escape, n and N are no;
\* every other key is read over
read_continue(key) ==
    IF key \in {"Enter", "y", "Y", " "} THEN <<TRUE>>
    ELSE IF key \in {"Escape", "n", "N"} THEN <<FALSE>>
    ELSE <<>>

Keys == {"Enter", "y", "Y", " ", "Escape", "n", "N", "x"}

\* the answers read_continue can return
Answers == { read_continue(k)[1] : k \in { k \in Keys : read_continue(k) # <<>> } }

\* run_timer(state, &mut tick_interval, |_s, d| ...) entered with fresh locals;
\* the closure's clear_line()? and write!(..)? work, or the terminal is gone
\* and they fail from the first report on
CallRun(state) ==
    /\ pc' = "l90"
    /\ initial_state' = state
    /\ failAt' \in {0, 1}
    /\ rt_start_time' = 0
    /\ new_state_either' = NoResult
    /\ remaining_time' = 0
    /\ ret' = NoReturn
    /\ events' = <<>> /\ reported' = <<>> /\ ticked' = <<>> /\ blocked' = 0

\* the call is over: its arguments and locals are gone
RunOver ==
    /\ pc' = "idle"
    /\ initial_state' = PreWork
    /\ failAt' = 0
    /\ rt_start_time' = 0
    /\ new_state_either' = NoResult
    /\ remaining_time' = 0
    /\ ret' = NoReturn
    /\ events' = <<>> /\ reported' = <<>> /\ ticked' = <<>> /\ blocked' = 0

InitMain ==
    /\ IdleSM /\ IdleFmt
    /\ now = 0
    /\ deadline = 0
    /\ pc = "idle"
    /\ initial_state = PreWork /\ failAt = 0 /\ rt_start_time = 0
    /\ new_state_either = NoResult /\ remaining_time = 0
    /\ ret = NoReturn
    /\ events = <<>> /\ reported = <<>> /\ ticked = <<>> /\ blocked = 0
    /\ mpc = "l23"
    /\ post_work_state = NoState
    /\ built = 0
    /\ cycle = <<>>

\* lines 23-26: "Starting work", start_working from a fresh PreWork, run_timer
StartWork ==
    /\ mpc = "l23"
    /\ \E d \in Delays :
         /\ now' = now + d
         /\ built' = now + d
         /\ CallRun(start_working(new, work_duration, now + d))
    /\ mpc' = "work"
    /\ cycle' = Append(cycle, "Working")
    /\ UNCHANGED <<smVars, fmtVars, deadline, post_work_state>>

\* lines 35-39: the Working run returned; "Work completed. Continue with break
\* (Y/n)?" and the user's answer
WorkDone ==
    /\ mpc = "work"
    /\ pc = "returned"
    /\ post_work_state' = ret.value
    /\ cycle' = Append(cycle, ret.value.kind)
    /\ \E t \in ThinkTimes, answer \in Answers :
         /\ now' = now + t
         /\ mpc' = IF answer THEN "l40" ELSE "l51"
    /\ RunOver
    /\ UNCHANGED <<smVars, fmtVars, deadline, built>>

\* lines 40-43: "Starting break", start_break on post_work_state, run_timer
StartBreakRun ==
    /\ mpc = "l40"
    /\ post_work_state.kind = "PostWork"
    /\ \E d \in Delays :
         /\ now' = now + d
         /\ built' = now + d
         /\ CallRun(start_break(post_work_state, break_duration, now + d))
    /\ mpc' = "break"
    /\ post_work_state' = NoState
    /\ cycle' = Append(cycle, "Break")
    /\ UNCHANGED <<smVars, fmtVars, deadline>>

\* line 48: the Break run returned; its Complete is dropped
BreakDone ==
    /\ mpc = "break"
    /\ pc = "returned"
    /\ cycle' = Append(cycle, ret.value.kind)
    /\ mpc' = "l51"
    /\ RunOver
    /\ UNCHANGED <<smVars, fmtVars, now, deadline, post_work_state, built>>

\* lines 51-52: "All complete! Ready for another (Y/n)?"
AllComplete ==
    /\ mpc = "l51"
    /\ mpc' = "l53"
    /\ cycle' = Append(cycle, "AllComplete")
    /\ UNCHANGED <<smVars, fmtVars, runVars, post_work_state, built>>

\* lines 53-55: the user's answer; yes goes round the loop, no exits
ReadyForAnother ==
    /\ mpc = "l53"
    /\ \E t \in ThinkTimes, answer \in Answers :
         IF answer
         THEN /\ mpc' = "l23"
              /\ now' = 0
              /\ deadline' = deadline - (now + t)
              /\ built' = 0
              /\ cycle' = <<"Another">>
         ELSE /\ mpc' = "exited"
              /\ now' = now + t
              /\ cycle' = Append(cycle, "Exit")
              /\ UNCHANGED <<deadline, built>>
    /\ post_work_state' = NoState
    /\ UNCHANGED <<smVars, fmtVars, pc, initial_state, failAt, rt_start_time,
                   new_state_either, remaining_time, ret, events, reported,
                   ticked, blocked>>

\* lines 35 and 48: .await? hands the callback's error on as main's result
RunFailed ==
    /\ mpc \in {"work", "break"}
    /\ pc = "failed"
    /\ mpc' = "failed"
    /\ RunOver
    /\ UNCHANGED <<smVars, fmtVars, now, deadline, post_work_state, built, cycle>>

\* a panic inside run_timer unwinds through main
RunPanicked ==
    /\ mpc \in {"work", "break"}
    /\ pc = "panicked"
    /\ mpc' = "aborted"
    /\ RunOver
    /\ UNCHANGED <<smVars, fmtVars, now, deadline, post_work_state, built, cycle>>

\* lines 23, 37-40, 51-53: a terminal operation fails and ? returns the error
TermFailed ==
    /\ \/ mpc \in {"l23", "l40", "l51", "l53"}
       \/ mpc = "work" /\ pc = "returned"
    /\ mpc' = "failed"
    /\ RunOver
    /\ UNCHANGED <<smVars, fmtVars, now, deadline, post_work_state, built, cycle>>

NextMain ==
    \/ StartWork
    \/ InitialTick
    \/ FirstWait
    \/ Remaining
    \/ Callback
    \/ LoopWait
    \/ ReTick
    \/ Return
    \/ WorkDone
    \/ StartBreakRun
    \/ BreakDone
    \/ AllComplete
    \/ ReadyForAnother
    \/ RunFailed
    \/ RunPanicked
    \/ TermFailed

SpecMain == InitMain /\ [][NextMain]_vars

----------------------------------------------------------------------------
(* src/main.rs: format_duration.  A Duration is given by its as_millis();  *)
(* its whole seconds are a u64, and so is rounded_seconds.  The text is a  *)
(* sequence of characters.                                                 *)

\* the largest u64, on a machine word of U64Bits bits
U64_MAX == 2 ^ U64Bits - 1

\* Duration::MAX.as_millis(): u64::MAX seconds and 999 milliseconds
MaxMillis == U64_MAX * 1000 + 999

\* the second count rounded down instead of up
rounded_seconds_Floor(millis) ==
    LET wide == millis \div 1000
    IN  IF wide <= U64_MAX THEN wide ELSE U64_MAX

\* lines 70-72: ((duration.as_millis() + 1000 - 1) / 1000).try_into()
\*                  .unwrap_or(u64::MAX), the division done in u128
rounded_seconds(millis) ==
    LET wide == (millis + 1000 - 1) \div 1000
    IN  IF wide <= U64_MAX THEN wide ELSE U64_MAX

DigitChars == <<"0", "1", "2", "3", "4", "5", "6", "7", "8", "9">>

\* Display for u64: the decimal digits, most significant first
RECURSIVE Decimal(_)
Decimal(n) ==
    IF n < 10
    THEN <<DigitChars[n + 1]>>
    ELSE Append(Decimal(n \div 10), DigitChars[(n % 10) + 1])

\* the format spec {:02}: zero-padded on the left to a width of at least 2
ZeroPad2(text) == IF Len(text) < 2 THEN <<"0">> \o text ELSE text

\* lines 69-76: format!("{:02}:{:02}", minutes, seconds)
format_duration(millis) ==
    LET seconds_total == rounded_seconds(millis)
        minutes == seconds_total \div 60
        seconds == seconds_total % 60
    IN  ZeroPad2(Decimal(minutes)) \o <<":">> \o ZeroPad2(Decimal(seconds))

InitFmt ==
    /\ IdleSM /\ IdleRun /\ IdleMain
    /\ duration \in 0 .. MaxMillis
    /\ formatted = <<>>

\* one call format_duration(&duration)
Format ==
    /\ formatted = <<>>
    /\ formatted' = format_duration(duration)
    /\ UNCHANGED <<smVars, runVars, mainVars, duration>>

NextFmt ==
    \/ Format

SpecFmt == InitFmt /\ [][NextFmt]_vars

----------------------------------------------------------------------------
(* Claims about the phase state machine, checked under SpecSM.             *)

Successor(s) == IF s.kind = "Working" THEN PostWork ELSE Complete

TickedBefore == op.name = "tick" /\ op.elapsed_time < period_length(op.self)
TickedAfter  == op.name = "tick" /\ op.elapsed_time >= period_length(op.self)

\* C1: a tick of a timed phase with an elapsed value below the phase's period
\* returns Continue, and the value it carries (the one the caller owns next) is
\* the ticked phase: same kind, same start_time, same period length.
C1_TickBelowPeriodContinues ==
    TickedBefore =>
        /\ outcome.tag = "Continue"
        /\ outcome.value.kind = op.self.kind
        /\ start_time(outcome.value) = start_time(op.self)
        /\ period_length(outcome.value) = period_length(op.self)
        /\ phase = op.self

C1_Witness ==
    /\ TickedBefore
    /\ op.self.kind = "Break"
    /\ op.elapsed_time + 1 = period_length(op.self)
    /\ outcome.tag = "Continue"

\* C2: a tick of a timed phase with an elapsed value at or above the phase's
\* period (the boundary elapsed = period and period = 0 with elapsed = 0
\* included) returns Complete carrying PostWork for a Working and Complete for a
\* Break, never Continue.
C2_TickAtOrAbovePeriodCompletes ==
    TickedAfter =>
        /\ outcome.tag = "Complete"
        /\ outcome.value = (IF op.self.kind = "Working" THEN PostWork ELSE Complete)
        /\ phase = outcome.value

C2_Witness ==
    /\ TickedAfter
    /\ op.self.kind = "Working"
    /\ op.elapsed_time = period_length(op.self)
    /\ period_length(op.self) = 0
    /\ outcome = TickComplete(PostWork)

\* The edges of the phase machine: <<from, operation, to>>; a tick edge also
\* depends on whether the period has elapsed.
LegalEdge(from, o, to) ==
    \/ from.kind = "PreWork"  /\ o.name = "start_working" /\ to.kind = "Working"
    \/ /\ from.kind = "Working" /\ o.name = "tick" /\ to.kind = "Working"
       /\ o.elapsed_time < period_length(from)
    \/ /\ from.kind = "Working" /\ o.name = "tick" /\ to.kind = "PostWork"
       /\ o.elapsed_time >= period_length(from)
    \/ from.kind = "Working"  /\ o.name = "stop"          /\ to.kind = "PreWork"
    \/ from.kind = "PostWork" /\ o.name = "start_break"   /\ to.kind = "Break"
    \/ /\ from.kind = "Break" /\ o.name = "tick" /\ to.kind = "Break"
       /\ o.elapsed_time < period_length(from)
    \/ /\ from.kind = "Break" /\ o.name = "tick" /\ to.kind = "Complete"
       /\ o.elapsed_time >= period_length(from)
    \/ from.kind = "Break"    /\ o.name = "stop"          /\ to.kind = "Complete"

\* C3: every operation applied to a phase value takes it along one of the
\* eight edges (new takes no phase value and yields PreWork); a Break is only
\* ever made from a PostWork, and a PostWork only by a tick of a Working whose
\* elapsed value has reached the period.
C3_OnlyLegalEdges ==
    /\ [][ /\ op'.name = "new" => phase' = PreWork
           /\ op'.name # "new" => LegalEdge(phase, op', phase')
           /\ phase'.kind = "PostWork" =>
                /\ op'.name = "tick" /\ phase.kind = "Working"
                /\ op'.elapsed_time >= period_length(phase) ]_vars
    /\ [](\A i \in 1 .. Len(path) :
            /\ path[i] = "Break" =>
                 /\ i > 1 /\ path[i - 1] \in {"PostWork", "Break"}
                 /\ \E j \in 1 .. i - 1 : path[j] = "PostWork"
            /\ path[i] = "PostWork" => i > 1 /\ path[i - 1] = "Working")

C3_Witness ==
    /\ path = <<"PreWork", "Working", "PostWork", "Break", "Complete">>
    /\ op.name = "stop"

\* C11: stop takes every Working, whatever its start_time and period and
\* whatever ticks it has been through, to PreWork, and every Break to Complete;
\* it always yields that value (it has no failure outcome).
C11_StopIsUnconditional ==
    op.name = "stop" =>
        /\ outcome = NoResult
        /\ op.self.kind = "Working" => phase = PreWork
        /\ op.self.kind = "Break" => phase = Complete
        /\ op.self.kind \in {"Working", "Break"}

C11_Witness ==
    /\ op.name = "stop"
    /\ path = <<"PreWork", "Working", "Working", "PreWork">>
    /\ period_length(op.self) = work_duration
    /\ start_time(op.self) = MaxInstant

\* C12: tick depends on nothing but its receiver and the elapsed time: when a
\* tick returned Continue and the phase it carried is ticked again with the
\* same elapsed time, the result is the same Continue carrying the same phase
\* (so by induction for any number of repetitions).
C12_TickRepeatsItself ==
    ( /\ prev.op.name = "tick"
      /\ prev.outcome.tag = "Continue"
      /\ op.name = "tick"
      /\ op.self = prev.outcome.value
      /\ op.elapsed_time = prev.op.elapsed_time )
    => /\ outcome = prev.outcome
       /\ outcome.tag = "Continue"
       /\ phase = op.self

C12_Witness ==
    /\ prev.op.name = "tick"
    /\ prev.outcome.tag = "Continue"
    /\ op.name = "tick"
    /\ op.self = prev.outcome.value
    /\ op.elapsed_time = prev.op.elapsed_time
    /\ op.elapsed_time > 0
    /\ path = <<"PreWork", "Working", "Working", "Working">>

----------------------------------------------------------------------------
(* Claims about one call of run_timer, checked under SpecRun.              *)

Period       == period_length(initial_state)
NeverFails   == failAt = 0
AlwaysFails  == failAt = 1
ElapsedAtCall == elapsed(start_time(initial_state), 0) >= Period
Over         == pc \in {"returned", "failed", "panicked"}
Count(ev)    == Cardinality({ i \in 1 .. Len(events) : events[i] = ev })
Last(q)      == q[Len(q)]
IsTick(ev)   == ev \in {"Continue", "Complete"}
About(a, b)  == a - b \in 1 - Cadence .. Cadence - 1

StrictlyDecreasing(q) == \A i \in 1 .. Len(q) - 1 : q[i] > q[i + 1]

NothingReportedAfterComplete ==
    \A i \in 1 .. Len(events) : \A j \in i + 1 .. Len(events) :
        events[i] = "Complete" => events[j] # "callback"

\* C4: a run over a Working phase of 2 s on a 1 s timing source, with a
\* callback that never fails, reports exactly twice, about 2 s and then about
\* 1 s remaining, and then returns PostWork at about 2 s elapsed, with no third
\* report ("about": less than one cadence period away).
C4_TwoReportsThenPostWork ==
    (initial_state.kind = "Working" /\ Period = work_duration /\ NeverFails) =>
        /\ Len(reported) <= 2
        /\ Len(reported) >= 1 => About(reported[1], work_duration)
        /\ Len(reported) >= 2 => About(reported[2], work_duration - Cadence)
        /\ Over =>
             /\ pc = "returned" /\ ret = Ok(PostWork)
             /\ Len(reported) = 2
             /\ About(Last(ticked), work_duration)

\* C5: in a run over a phase of 2 s on a 1 s timing source the remaining times
\* handed to the callback strictly decrease, the run ends by returning the
\* successor marker, and nothing is reported after the tick that returned
\* Complete.
C5_DecreasingReportsThenMarker ==
    (Period = work_duration /\ NeverFails) =>
        /\ StrictlyDecreasing(reported)
        /\ NothingReportedAfterComplete
        /\ Over => pc = "returned" /\ ret = Ok(Successor(initial_state))

\* C6: a run over a phase whose period is 0, or has elapsed at the initial
\* tick, returns the successor marker at once: it is not suspended on the timing
\* source for a full period, waits on it at most once, and reports at most once.
C6_ElapsedPeriodReturnsAtOnce ==
    ElapsedAtCall =>
        /\ Len(reported) <= 1
        /\ Count("wait") <= 1
        /\ blocked < Cadence
        /\ Over => pc = "returned" /\ ret = Ok(Successor(initial_state))

\* C7: every tick that returns Continue, the initial one included, is followed
\* directly by the report of it, then one wait on the timing source, then one
\* re-tick, with nothing in between; in particular no wait separates a Continue
\* from its report.
C7_ContinueThenReportWaitRetick ==
    \A i \in 1 .. Len(events) :
        events[i] = "Continue" =>
            /\ i + 1 <= Len(events) => events[i + 1] = "callback"
            /\ i + 2 <= Len(events) => events[i + 2] = "wait"
            /\ i + 3 <= Len(events) => IsTick(events[i + 3])
            /\ (Over /\ NeverFails) => i + 3 <= Len(events)

\* C8: when the callback fails at its k-th invocation the run stops there: the
\* failing invocation is the last thing the run did (no tick, wait or report
\* follows it), the run has returned that failure, and no marker is produced.
C8_CallbackFailureStopsRun ==
    (failAt # 0 /\ Len(reported) >= failAt) =>
        /\ pc = "failed"
        /\ ret = Err
        /\ Len(reported) = failAt
        /\ Last(events) = "callback"
        /\ Count("Complete") = 0

C8_Witness ==
    /\ pc = "failed"
    /\ failAt = 2
    /\ Len(reported) = 2
    /\ Count("wait") = 2

\* C9: with a callback that always fails and a period that has not elapsed at
\* the initial tick, the run returns the failure at the first invocation of the
\* callback, after at most one wait on the timing source.
C9_AlwaysFailingReturnsAtFirstReport ==
    (AlwaysFails /\ ~ElapsedAtCall) =>
        /\ Len(reported) <= 1
        /\ Count("wait") <= 1
        /\ Over => pc = "failed" /\ ret = Err /\ Len(reported) = 1

\* C10: a run returns a marker only out of a tick that returned Complete: when
\* it has returned PostWork or Complete, the last tick was given an elapsed
\* value that had reached the period, it is the only tick that returned
\* Complete, and no tick and no report came after it.
C10_MarkerOnlyFromCompleteTick ==
    pc = "returned" =>
        /\ ret = Ok(Successor(initial_state))
        /\ Last(ticked) >= Period
        /\ Count("Complete") = 1
        /\ \E i \in 1 .. Len(events) :
             /\ events[i] = "Complete"
             /\ \A j \in i + 1 .. Len(events) : events[j] = "wait"
        /\ Len(ticked) = Count("Continue") + 1

C10_Witness ==
    /\ pc = "returned"
    /\ ret = Ok(Complete)
    /\ Len(reported) = 2
    /\ Last(ticked) = Period
    /\ Period > 0

NonDecreasing(q)     == \A i \in 1 .. Len(q) - 1 : q[i] <= q[i + 1]
StrictlyIncreasing(q) == \A i \in 1 .. Len(q) - 1 : q[i] < q[i + 1]

\* every tick but the first comes right after a wait on the Interval, and that
\* wait right after the callback of the tick before
TicksInOrder ==
    /\ Len(events) > 0 => IsTick(events[1])
    /\ \A i \in 2 .. Len(events) :
          IsTick(events[i]) =>
              /\ i >= 5
              /\ events[i - 1] = "wait"
              /\ events[i - 2] = "callback"
              /\ \/ events[i - 3] = "Continue"
                 \/ i = 5 /\ events[2] = "wait" /\ events[1] = "Continue"
    /\ Len(SelectSeq(events, IsTick)) = Len(ticked)

\* C13 as stated: within one run every callback completes before the next
\* wait begins, no tick is skipped or reordered, and the elapsed values handed
\* to successive ticks are strictly increasing.
C13_TicksStrictlyIncreasing ==
    /\ TicksInOrder
    /\ StrictlyIncreasing(ticked)

\* C13, amended: within one run every callback completes before the next wait
\* begins, no tick is skipped or reordered, and the elapsed values handed to
\* successive ticks never decrease (they are equal when the Interval is
\* behind and the clock reads the same at both).
C13_TicksNonDecreasing ==
    /\ TicksInOrder
    /\ NonDecreasing(ticked)

C13_Witness ==
    /\ pc = "returned"
    /\ Len(ticked) >= 3
    /\ ticked[1] = ticked[2]
    /\ ticked[2] < Last(ticked)

\* C15: whenever run_timer computes the remaining time, the elapsed time read
\* at that moment is at most the period: period_length - elapsed never
\* underflows, the call never panics, and every remaining time handed to the
\* callback lies in 0 ..= period, for every period and every state of the
\* Interval.
C15_RemainingNeverUnderflows ==
    /\ pc # "panicked"
    /\ pc = "l95" => remaining_time \in 0 .. Period
    /\ \A i \in 1 .. Len(reported) : reported[i] \in 0 .. Period

IsWaitOrCallback(ev) == ev \in {"wait", "callback"}
WaitsAndCallbacks == SelectSeq(events, IsWaitOrCallback)

\* C16: within one run waits on the Interval and callback invocations strictly
\* alternate, starting with a wait: there is a wait between any two callbacks
\* and a callback between any two waits, so there are never more callbacks
\* than boundaries waited for.
C16_WaitsAndCallbacksAlternate ==
    LET both == WaitsAndCallbacks
    IN  \A i \in 1 .. Len(both) :
            both[i] = IF i % 2 = 1 THEN "wait" ELSE "callback"

C16_Witness ==
    /\ pc = "returned"
    /\ Count("callback") = 2
    /\ Count("wait") = 3

\* C17: when the callback never fails and every wait on the Interval returns
\* with the clock advanced (the Interval's next boundary lies ahead at the
\* call), a run over any timed phase eventually returns the successor marker.
C17_RunEventuallyReturnsMarker ==
    (NeverFails /\ deadline > now)
    => <>(pc = "returned" /\ ret = Ok(Successor(initial_state)))

----------------------------------------------------------------------------
(* Claims about the top-level cycle, checked under SpecMain.               *)

Running == pc \notin {"idle"}

\* C14: the start_time and period of a timed phase are those it was
\* constructed with (the clock reading at start_working / start_break and
\* main's duration) and no Continue tick changes them; every elapsed time
\* handed to tick or subtracted for the remaining time is measured from that
\* phase's own start_time, for a Break never from the Working phase's.
C14_PhaseMeasuredFromItsOwnStart ==
    Running =>
        /\ start_time(initial_state) = built
        /\ Period = IF initial_state.kind = "Working"
                    THEN work_duration ELSE break_duration
        /\ pc # "l90" => rt_start_time = built
        /\ new_state_either.tag = "Continue" => new_state_either.value = initial_state
        /\ (pc \in {"l92", "l94", "l101"} /\ IsTick(Last(events)))
              => Last(ticked) = now - built
        /\ pc = "l95" => remaining_time = Period - (now - built)

C14_Witness ==
    /\ initial_state.kind = "Break"
    /\ pc = "l95"
    /\ Len(ticked) = 2
    /\ Last(ticked) > 0
    /\ built >= work_duration

Before(i, names) ==
    /\ i > Len(names)
    /\ \A j \in 1 .. Len(names) : cycle[i - Len(names) + j - 1] = names[j]

\* a PostWork exists only as the result of a completed Working run, a Break
\* only as start_break of that PostWork, a Complete only as the result of a
\* completed Break run
MarkersInOrder ==
    /\ \A i \in 1 .. Len(cycle) :
          /\ cycle[i] = "PostWork" => Before(i, <<"Working">>)
          /\ cycle[i] = "Break" => Before(i, <<"Working", "PostWork">>)
          /\ cycle[i] = "Complete" => Before(i, <<"Working", "PostWork", "Break">>)
    /\ post_work_state.kind = "PostWork"
          => \E i \in 1 .. Len(cycle) :
                 /\ cycle[i] = "PostWork"
                 /\ \A j \in i + 1 .. Len(cycle) : cycle[j] \notin {"Break", "Working"}
    /\ post_work_state.kind \in {"PostWork", "none"}

\* a Working phase is started from a fresh PreWork, first of all or after
\* the user asked for another cycle at the "All complete" prompt
WorkingOnlyAfterAllComplete ==
    \A i \in 1 .. Len(cycle) :
        cycle[i] = "Working" => i = 1 \/ (i = 2 /\ cycle[1] = "Another")

\* C18 as stated: every PostWork comes from a completed Working run and is
\* consumed by start_break before the cycle ends; every cycle that reaches
\* the "All complete" prompt has been through a Break that ended in Complete;
\* a new Working phase starts only from a fresh PreWork after that.
C18_EveryCycleTakesTheBreak ==
    /\ MarkersInOrder
    /\ WorkingOnlyAfterAllComplete
    /\ \A i \in 1 .. Len(cycle) :
          cycle[i] = "AllComplete"
              => Before(i, <<"Working", "PostWork", "Break", "Complete">>)

\* C18, amended: every PostWork comes from a completed Working run; it is
\* consumed by start_break when the user accepts the break and dropped when
\* the user declines; every cycle that reaches the "All complete" prompt has
\* either been through a Break that ended in Complete or had its break
\* declined right after the Working run; a new Working phase starts only
\* from a fresh PreWork after that prompt was answered.
C18_BreakTakenOrDeclined ==
    /\ MarkersInOrder
    /\ WorkingOnlyAfterAllComplete
    /\ \A i \in 1 .. Len(cycle) :
          cycle[i] = "AllComplete"
              => \/ Before(i, <<"Working", "PostWork", "Break", "Complete">>)
                 \/ Before(i, <<"Working", "PostWork">>)

C18_Witness ==
    /\ mpc = "exited"
    /\ cycle = <<"Another", "Working", "PostWork", "Break", "Complete",
                 "AllComplete", "Exit">>

----------------------------------------------------------------------------
(* Claims about format_duration, checked under SpecFmt.                    *)

\* the text read back: the fields on either side of the colon, as numbers
ColonAt      == CHOOSE i \in 1 .. Len(formatted) : formatted[i] = ":"
MinutesField == SubSeq(formatted, 1, ColonAt - 1)
SecondsField == SubSeq(formatted, ColonAt + 1, Len(formatted))

DigitValue(c) == CHOOSE d \in 0 .. 9 : DigitChars[d + 1] = c

RECURSIVE Value(_)
Value(text) ==
    IF text = <<>>
    THEN 0
    ELSE Value(SubSeq(text, 1, Len(text) - 1)) * 10 + DigitValue(Last(text))

\* milliseconds / 1000, rounded up
Ceiling(millis) ==
    IF millis % 1000 = 0 THEN millis \div 1000 ELSE millis \div 1000 + 1

Formatted == formatted # <<>>

\* the text is minutes:seconds, both at least two digits, seconds in 0 ..= 59;
\* 0 ms prints 00:00 and 1 ..= 1000 ms print 00:01
MinutesAndSeconds ==
    /\ Cardinality({ i \in 1 .. Len(formatted) : formatted[i] = ":" }) = 1
    /\ Len(MinutesField) >= 2
    /\ Len(SecondsField) = 2
    /\ Value(SecondsField) \in 0 .. 59
    /\ duration = 0 => formatted = <<"0", "0", ":", "0", "0">>
    /\ duration \in 1 .. 1000 => formatted = <<"0", "0", ":", "0", "1">>

\* C19 as stated: format_duration rounds the remaining time up to whole
\* seconds and prints minutes:seconds with seconds in 0 ..= 59; 0 ms prints
\* 00:00, 1 ..= 1000 ms print 00:01, and minutes * 60 + seconds is the
\* rounded-up second count.
C19_PrintsCeilingOfSeconds ==
    Formatted =>
        /\ MinutesAndSeconds
        /\ Value(MinutesField) * 60 + Value(SecondsField) = Ceiling(duration)

\* C19, amended: as stated for every remaining time whose rounded-up second
\* count fits a u64; for a longer one (more than u64::MAX seconds) the text
\* shows u64::MAX seconds.
C19_PrintsCeilingOrSaturates ==
    Formatted =>
        /\ MinutesAndSeconds
        /\ Value(MinutesField) * 60 + Value(SecondsField)
             = IF Ceiling(duration) <= U64_MAX THEN Ceiling(duration) ELSE U64_MAX

C19_Witness ==
    /\ Formatted
    /\ duration = 61001
    /\ formatted = <<"0", "1", ":", "0", "2">>


============================================================================
